---- MODULE Spec2Model ----
(***************************************************************************)
(* A model of DockSec: the scanner command (docker_scanner.py), the        *)
(* validated settings object and its process-wide instance                 *)
(* (config_manager.py), the deterministic score breakdown                  *)
(* (score_calculator.py) and the report generator (report_generator.py).   *)
(*                                                                         *)
(* Text is a sequence of one-character strings.  A Python value that may   *)
(* be None is a record [isNone, v]; an exception leaving a function is the  *)
(* "raised" field of the function's result.                                *)
(***************************************************************************)
EXTENDS Integers, Sequences, FiniteSets, TLC

VARIABLES
    \* ---- scanner command (docker_scanner.py: main and DockerSecurityScanner)
    pc,               \* position of main()
    argc,             \* len(sys.argv)
    dockerfile_exists,\* os.path.exists(dockerfile_path)
    tool_idx,         \* index of the loop of _check_tools
    missing_tools,    \* the list _check_tools builds
    tool_results,     \* the outcomes of the version checks made so far
    invocations,      \* external commands started and files written, in order
    lint_proc,        \* what the hadolint process did
    text_proc,        \* what the text-mode trivy process did
    json_proc,        \* what the structured-mode trivy process did
    lint_ret,         \* what scan_dockerfile returned (or raised)
    text_ret,         \* what scan_image returned (or raised)
    json_ret,         \* what scan_image_json returned (or raised)
    results,          \* the dictionary run_full_scan builds
    scan_status,      \* run_full_scan's overall status
    returned,         \* run_full_scan has returned its record
    saved_file,       \* content of results/scan_results.json
    error,            \* the exception that ended main(), if any
    exit_code,        \* the process's exit status, -1 while it runs
    \* ---- settings (config_manager.py)
    cfg_heap,         \* the DocksecConfig objects built so far; index = identity
    cfg_global,       \* _config: 0 for None, else the index of the instance
    environ,          \* os.environ, the variables the settings read
    cfg_last,         \* the last settings call: what it was and how it ended
    cfg_before,       \* the target object as it was before the last update()
    n_updates,        \* number of update() calls so far
    hist_mode,        \* "set" if a set_config came after the last reset_config
    hist_set,         \* instance given to that set_config
    hist_first,       \* instance returned by the first get_config since then
    hist_prev_get,    \* instance returned by the previous get_config, if no
                      \* set_config or reset_config came after it
    \* ---- score breakdown (score_calculator.py)
    score_pc,         \* "ready" before get_score_breakdown, "done" after
    score_results,    \* the scan-result record given to get_score_breakdown
    score_breakdown,  \* the breakdown dictionary
    llm_response,     \* what score_chain.invoke did in calculate_score
    llm_ret,          \* what calculate_score returned
    \* ---- report generation (report_generator.py)
    rep_pc,           \* "new", then the format generate_all_reports is at,
                      \* then "done" (returned) or "raised"
    image_name,       \* ReportGenerator.image_name
    analysis_score,   \* ReportGenerator.analysis_score
    rep_results,      \* the scan-result record being reported
    rep_files,        \* the report files of the results directory
    report_paths,     \* generate_all_reports' report_paths
    rep_attempted,    \* the generators called so far, in call order
    rep_raised,       \* the exception that left generate_all_reports
    \* ---- one call of a helper function
    fn_pc,            \* "ready" before the call, "returned" after
    fn_in,            \* the function called and its arguments
    fn_out            \* what it returned

scanVars == <<pc, argc, dockerfile_exists, tool_idx, missing_tools, tool_results, invocations,
              lint_proc, text_proc, json_proc, lint_ret, text_ret, json_ret,
              results, scan_status, returned, saved_file, error, exit_code>>

cfgVars == <<cfg_heap, cfg_global, environ, cfg_last, cfg_before,
             n_updates, hist_mode, hist_set, hist_first, hist_prev_get>>

scoreVars == <<score_pc, score_results, score_breakdown, llm_response, llm_ret>>

repVars == <<rep_pc, image_name, analysis_score, rep_results, rep_files, report_paths,
             rep_attempted, rep_raised>>

fnVars == <<fn_pc, fn_in, fn_out>>

vars == <<scanVars, cfgVars, scoreVars, repVars, fnVars>>

(***************************************************************************)
(* Python values                                                           *)
(***************************************************************************)
OptNone == [isNone |-> TRUE, v |-> <<>>]
Some(x) == [isNone |-> FALSE, v |-> x]
\* Python truthiness of an optional string or list
Truthy(o) == ~o.isNone /\ o.v # <<>>
\* an absent string-valued key
NoneStr == "<None>"

\* The result of a call: a returned (success, data) pair, or an exception.
Ret(s, d) == [raised |-> "none", success |-> s, data |-> d]
Raise(e) == [raised |-> e, success |-> FALSE, data |-> OptNone]
NotCalled == [raised |-> "notcalled", success |-> FALSE, data |-> OptNone]

(***************************************************************************)
(* External processes.  subprocess.run either cannot start the program     *)
(* (OSError: FileNotFoundError), cannot decode what it printed             *)
(* (UnicodeDecodeError, a ValueError), or returns the exit status and the  *)
(* two captured streams.                                                   *)
(***************************************************************************)
Texts == {<<>>, <<"a">>, <<"a", "\n">>, <<"a", "\n", "b">>}
ErrTexts == {<<>>, <<"e">>}

TextProcs ==
    {[kind |-> k, rc |-> 0, stdout |-> <<>>, stderr |-> <<>>] :
        k \in {"nostart", "undecodable"}}
    \cup [kind : {"exited"}, rc : {0, 1}, stdout : Texts, stderr : ErrTexts]

NoProc == [kind |-> "notrun", rc |-> 0, stdout |-> <<>>, stderr |-> <<>>]

\* vulnerability["CVSS"]["nvd"]["V3Score"], in tenths, when the three keys exist
CvssNone == [isNone |-> TRUE, v |-> 0]
CvssSome(n) == [isNone |-> FALSE, v |-> n]

\* What trivy -f json printed: text that json.loads rejects, or a JSON value.
Desc(n) == [i \in 1..n |-> IF i % 2 = 1 THEN "x" ELSE "y"]

RawVuln(id, sev, desc) ==
    [VulnerabilityID |-> id, PkgName |-> "pkg", InstalledVersion |-> "1.0",
     Severity |-> sev, Title |-> <<"t">>, Description |-> desc,
     Status |-> "fixed", CVSS |-> CvssNone, PrimaryURL |-> "url"]

JsonInvalid(t) == [valid |-> FALSE, type |-> t, Results |-> <<>>]
JsonValue(t) == [valid |-> TRUE, type |-> t, Results |-> <<>>]
JsonObject(rs) == [valid |-> TRUE, type |-> "object", Results |-> rs]

\* A finding whose strings hold the characters HTML gives a meaning to.
MarkupVuln ==
    [RawVuln(">", "<", <<"&">>) EXCEPT
        !.PkgName = "\"", !.Title = <<"<", "b", ">">>, !.Status = "'"]

JsonDocs ==
    {JsonInvalid("empty"), JsonInvalid("garbage"),
     JsonObject(<<[Target |-> "img", Vulnerabilities |-> <<MarkupVuln>>]>>),
     JsonValue("null"), JsonValue("array"),
     JsonObject(<<>>),
     JsonObject(<<[Target |-> "img", Vulnerabilities |-> <<>>]>>),
     JsonObject(<<[Target |-> "img", Vulnerabilities |->
                    <<RawVuln("CVE-1", "CRITICAL", Desc(3)),
                      RawVuln("CVE-2", "HIGH", <<>>)>>]>>),
     JsonObject(<<[Target |-> "os", Vulnerabilities |->
                    <<RawVuln("CVE-3", "HIGH", Desc(2))>>],
                  [Target |-> "lib", Vulnerabilities |->
                    <<RawVuln("CVE-4", NoneStr, Desc(1))>>]>>)}

JsonProcs ==
    {[kind |-> k, rc |-> 0, stdout |-> JsonInvalid("empty"), stderr |-> <<>>] :
        k \in {"nostart", "undecodable"}}
    \cup [kind : {"exited"}, rc : {0, 1}, stdout : JsonDocs, stderr : ErrTexts]

NoJsonProc == [kind |-> "notrun", rc |-> 0, stdout |-> JsonInvalid("empty"),
               stderr |-> <<>>]

(***************************************************************************)
(* DockerSecurityScanner                                                   *)
(***************************************************************************)
required_tools == <<"docker", "hadolint", "trivy">>

\* Outcomes of `<tool> --version` under check=True: exit status 0
\* ("ok"), CalledProcessError ("nonzero"), FileNotFoundError ("notfound"), or
\* another OSError such as PermissionError for a file that is not executable
\* ("denied").
ToolOutcomes == {"ok", "nonzero", "notfound", "denied"}
\* Outcomes of `docker image inspect <image>` under check=True.
InspectOutcomes == {"ok", "nonzero", "nostart"}

DescLimit == 150

\* the truncation applied from 150 characters on
truncate_description_from_limit(description) ==
    IF description # <<>> /\ Len(description) >= DescLimit
    THEN SubSeq(description, 1, DescLimit) \o <<".", ".", ".">>
    ELSE description

truncate_description(description) ==
    IF description # <<>> /\ Len(description) > DescLimit
    THEN SubSeq(description, 1, DescLimit) \o <<".", ".", ".">>
    ELSE description

filtered_vulnerability(target, vulnerability) ==
    [VulnerabilityID |-> vulnerability.VulnerabilityID,
     Target |-> target,
     PkgName |-> vulnerability.PkgName,
     InstalledVersion |-> vulnerability.InstalledVersion,
     Severity |-> vulnerability.Severity,
     Title |-> vulnerability.Title,
     Description |-> truncate_description(vulnerability.Description),
     Status |-> vulnerability.Status,
     CVSS |-> vulnerability.CVSS,
     PrimaryURL |-> vulnerability.PrimaryURL]

RECURSIVE filter_vulnerabilities(_, _)
filter_vulnerabilities(target, vs) ==
    IF vs = <<>> THEN <<>>
    ELSE <<filtered_vulnerability(target, Head(vs))>>
         \o filter_vulnerabilities(target, Tail(vs))

RECURSIVE filter_results(_)
filter_results(rs) ==
    IF rs = <<>> THEN <<>>
    ELSE filter_vulnerabilities(Head(rs).Target, Head(rs).Vulnerabilities)
         \o filter_results(Tail(rs))

\* _filter_scan_results: scan_results.get(...) needs a JSON object.
filter_scan_results(scan_results) ==
    IF scan_results.type # "object"
    THEN [raised |-> "AttributeError", list |-> <<>>]
    ELSE [raised |-> "none", list |-> filter_results(scan_results.Results)]

\* scan_dockerfile: subprocess.run without check=True never raises the
\* CalledProcessError the except clause names.
scan_dockerfile(p) ==
    IF p.kind = "nostart" THEN Raise("FileNotFoundError")
    ELSE IF p.kind = "undecodable" THEN Raise("UnicodeDecodeError")
    ELSE IF p.rc # 0
         THEN Ret(FALSE, Some(IF p.stdout # <<>> THEN p.stdout ELSE p.stderr))
         ELSE Ret(TRUE, OptNone)

\* scan_image judging success by what was captured on standard error
scan_image_by_stderr(p) ==
    IF p.kind = "nostart" THEN Raise("FileNotFoundError")
    ELSE IF p.kind = "undecodable" THEN Raise("UnicodeDecodeError")
    ELSE Ret(p.rc = 0 /\ p.stderr = <<>>, Some(p.stdout))

scan_image(p) ==
    IF p.kind = "nostart" THEN Raise("FileNotFoundError")
    ELSE IF p.kind = "undecodable" THEN Raise("UnicodeDecodeError")
    ELSE Ret(p.rc = 0, Some(p.stdout))

\* scan_image_json with the JSONDecodeError handler left out
scan_image_json_uncaught(p) ==
    IF p.kind = "nostart" THEN Raise("FileNotFoundError")
    ELSE IF p.kind = "undecodable" THEN Raise("UnicodeDecodeError")
    ELSE IF ~p.stdout.valid THEN Raise("JSONDecodeError")
    ELSE IF p.stdout.type # "object" THEN Raise("AttributeError")
    ELSE Ret(TRUE, Some(filter_results(p.stdout.Results)))

\* scan_image_json: json.JSONDecodeError is caught, nothing else is.
scan_image_json(p) ==
    IF p.kind = "nostart" THEN Raise("FileNotFoundError")
    ELSE IF p.kind = "undecodable" THEN Raise("UnicodeDecodeError")
    ELSE IF ~p.stdout.valid THEN Ret(FALSE, OptNone)
    ELSE LET f == filter_scan_results(p.stdout)
         IN  IF f.raised # "none" THEN Raise(f.raised)
             ELSE Ret(TRUE, Some(f.list))

\* run_full_scan, lines 227-238
InitialResults ==
    [dockerfile_scan |-> [success |-> FALSE, output |-> OptNone],
     image_scan |-> [success |-> FALSE, output |-> OptNone],
     json_data |-> OptNone]

\* Records run_full_scan can return.
RunFullScanRecords ==
    {[dockerfile_scan |-> [success |-> a.success, output |-> a.data],
      image_scan |-> [success |-> b.success, output |-> b.data],
      json_data |-> IF c.success THEN c.data ELSE OptNone] :
        a \in {x \in {scan_dockerfile(p) : p \in TextProcs} : x.raised = "none"},
        b \in {x \in {scan_image(p) : p \in TextProcs} : x.raised = "none"},
        c \in {x \in {scan_image_json(p) : p \in JsonProcs} : x.raised = "none"}}

\* main, lines 309-312
exit_status(r) ==
    IF r.dockerfile_scan.success /\ r.image_scan.success THEN 0 ELSE 1

NoError == [type |-> "none", where |-> "none", caught |-> FALSE]
\* main catches ValueError (UnicodeDecodeError is one) and exits 1; any other
\* exception leaves main() and the interpreter exits 1.
MainError(type, where) ==
    [type |-> type, where |-> where,
     caught |-> type \in {"ValueError", "UnicodeDecodeError"}]

Invoke(cmd) == invocations' = Append(invocations, cmd)

\* The run ends with exception `type` raised in `where`.
Abort(type, where) ==
    /\ error' = MainError(type, where)
    /\ exit_code' = 1
    /\ pc' = "exited"

ScanInit ==
    /\ pc = "main"
    /\ argc \in 1..4
    /\ dockerfile_exists \in BOOLEAN
    /\ tool_idx = 1
    /\ missing_tools = <<>>
    /\ tool_results = <<>>
    /\ invocations = <<>>
    /\ lint_proc = NoProc
    /\ text_proc = NoProc
    /\ json_proc = NoJsonProc
    /\ lint_ret = NotCalled
    /\ text_ret = NotCalled
    /\ json_ret = NotCalled
    /\ results = InitialResults
    /\ scan_status = TRUE
    /\ returned = FALSE
    /\ saved_file = OptNone
    /\ error = NoError
    /\ exit_code = -1

\* main, lines 288-295
ParseArgs ==
    /\ pc = "main"
    /\ IF argc < 3
       THEN /\ pc' = "exited"
            /\ exit_code' = 1
       ELSE /\ pc' = "check_tools"
            /\ UNCHANGED exit_code
    /\ UNCHANGED <<argc, dockerfile_exists, tool_idx, missing_tools,
                   tool_results, invocations,
                   lint_proc, text_proc, json_proc, lint_ret, text_ret, json_ret,
                   results, scan_status, returned, saved_file, error>>

\* _check_tools, one iteration of the loop
CheckTool ==
    /\ pc = "check_tools"
    /\ tool_idx <= Len(required_tools)
    /\ \E o \in ToolOutcomes :
         /\ tool_results' = Append(tool_results, o)
         /\ IF o = "denied"
            THEN /\ Abort("PermissionError", "_check_tools")
                 /\ UNCHANGED missing_tools
            ELSE /\ missing_tools' =
                      IF o = "ok" THEN missing_tools
                      ELSE Append(missing_tools, required_tools[tool_idx])
                 /\ pc' = IF tool_idx = Len(required_tools) THEN "verify"
                          ELSE "check_tools"
                 /\ UNCHANGED <<error, exit_code>>
    /\ Invoke(<<required_tools[tool_idx], "--version">>)
    /\ tool_idx' = tool_idx + 1
    /\ UNCHANGED <<argc, dockerfile_exists, lint_proc, text_proc, json_proc,
                   lint_ret, text_ret, json_ret, results, scan_status, returned,
                   saved_file>>

\* __init__ without the os.path.exists check
init_check_tools_only(missing, exists) ==
    IF missing # <<>> THEN "ValueError" ELSE "none"

\* __init__, lines 28-34
init_check(missing, exists) ==
    IF missing # <<>> THEN "ValueError"
    ELSE IF ~exists THEN "ValueError"
    ELSE "none"

VerifyTargets ==
    /\ pc = "verify"
    /\ IF init_check(missing_tools, dockerfile_exists) # "none"
       THEN Abort(init_check(missing_tools, dockerfile_exists), "__init__")
       ELSE /\ pc' = "inspect"
            /\ UNCHANGED <<error, exit_code>>
    /\ UNCHANGED <<argc, dockerfile_exists, tool_idx, missing_tools,
                   tool_results, invocations,
                   lint_proc, text_proc, json_proc, lint_ret, text_ret, json_ret,
                   results, scan_status, returned, saved_file>>

\* __init__, lines 37-44
InspectImage ==
    /\ pc = "inspect"
    /\ Invoke(<<"docker", "image", "inspect">>)
    /\ \E o \in InspectOutcomes :
         CASE o = "ok" -> /\ pc' = "lint"
                          /\ UNCHANGED <<error, exit_code>>
           [] o = "nonzero" -> Abort("ValueError", "__init__")
           [] o = "nostart" -> Abort("FileNotFoundError", "__init__")
    /\ UNCHANGED <<argc, dockerfile_exists, tool_idx, missing_tools, tool_results,
                   lint_proc, text_proc, json_proc, lint_ret, text_ret, json_ret,
                   results, scan_status, returned, saved_file>>

\* run_full_scan, lines 241-245
RunLint ==
    /\ pc = "lint"
    /\ Invoke(<<"hadolint">>)
    /\ \E p \in TextProcs :
         LET r == scan_dockerfile(p) IN
         /\ lint_proc' = p
         /\ lint_ret' = r
         /\ IF r.raised # "none"
            THEN /\ Abort(r.raised, "scan_dockerfile")
                 /\ UNCHANGED <<results, scan_status>>
            ELSE /\ results' = [results EXCEPT !.dockerfile_scan =
                                  [success |-> r.success, output |-> r.data]]
                 /\ scan_status' = (scan_status /\ r.success)
                 /\ pc' = "text"
                 /\ UNCHANGED <<error, exit_code>>
    /\ UNCHANGED <<argc, dockerfile_exists, tool_idx, missing_tools, tool_results,
                   text_proc, json_proc, text_ret, json_ret, returned, saved_file>>

\* run_full_scan, lines 248-252
RunTextScan ==
    /\ pc = "text"
    /\ Invoke(<<"trivy", "image">>)
    /\ \E p \in TextProcs :
         LET r == scan_image(p) IN
         /\ text_proc' = p
         /\ text_ret' = r
         /\ IF r.raised # "none"
            THEN /\ Abort(r.raised, "scan_image")
                 /\ UNCHANGED <<results, scan_status>>
            ELSE /\ results' = [results EXCEPT !.image_scan =
                                  [success |-> r.success, output |-> r.data]]
                 /\ scan_status' = (scan_status /\ r.success)
                 /\ pc' = "json"
                 /\ UNCHANGED <<error, exit_code>>
    /\ UNCHANGED <<argc, dockerfile_exists, tool_idx, missing_tools, tool_results,
                   lint_proc, json_proc, lint_ret, json_ret, returned, saved_file>>

\* run_full_scan, lines 255-266
RunJsonScan ==
    /\ pc = "json"
    /\ Invoke(<<"trivy", "image", "-f", "json">>)
    /\ \E p \in JsonProcs :
         LET r == scan_image_json(p) IN
         /\ json_proc' = p
         /\ json_ret' = r
         /\ IF r.raised # "none"
            THEN /\ Abort(r.raised, "scan_image_json")
                 /\ UNCHANGED <<results, returned>>
            ELSE /\ results' = IF r.success
                               THEN [results EXCEPT !.json_data = r.data]
                               ELSE results
                 /\ returned' = TRUE
                 /\ pc' = "save"
                 /\ UNCHANGED <<error, exit_code>>
    /\ UNCHANGED <<argc, dockerfile_exists, tool_idx, missing_tools, tool_results,
                   lint_proc, text_proc, lint_ret, text_ret, scan_status,
                   saved_file>>

\* save_results_to_file: a failed write is reported, not raised
SaveResults ==
    /\ pc = "save"
    /\ Invoke(<<"write", "scan_results.json">>)
    /\ \E written \in BOOLEAN :
         saved_file' = IF written THEN Some(<<results>>) ELSE saved_file
    /\ pc' = "exit"
    /\ UNCHANGED <<argc, dockerfile_exists, tool_idx, missing_tools, tool_results,
                   lint_proc, text_proc, json_proc, lint_ret, text_ret, json_ret,
                   results, scan_status, returned, error, exit_code>>

\* main, lines 309-312
Exit ==
    /\ pc = "exit"
    /\ exit_code' = exit_status(results)
    /\ pc' = "exited"
    /\ UNCHANGED <<argc, dockerfile_exists, tool_idx, missing_tools,
                   tool_results, invocations,
                   lint_proc, text_proc, json_proc, lint_ret, text_ret, json_ret,
                   results, scan_status, returned, saved_file, error>>

ScanNext ==
    \/ ParseArgs
    \/ CheckTool
    \/ VerifyTargets
    \/ InspectImage
    \/ RunLint
    \/ RunTextScan
    \/ RunJsonScan
    \/ SaveResults
    \/ Exit


(***************************************************************************)
(* DocksecConfig (config_manager.py).  llm_temperature is held in tenths;  *)
(* default_severity is held as the list its split(',') gives.              *)
(***************************************************************************)
Defaults ==
    [openai_api_key |-> NoneStr,
     base_dir |-> "base",
     results_dir |-> "cwd/results",
     timeout_hadolint |-> 300,
     timeout_trivy |-> 600,
     timeout_docker_scout |-> 300,
     timeout_llm |-> 60,
     max_retries_llm |-> 2,
     llm_model |-> "gpt-4o",
     llm_temperature |-> 0,
     retry_attempts |-> 3,
     retry_min_wait |-> 2,
     retry_max_wait |-> 10,
     default_severity |-> <<"CRITICAL", "HIGH">>,
     max_file_size_mb |-> 10]

FieldNames == DOMAIN Defaults

valid_severities == {"CRITICAL", "HIGH", "MEDIUM", "LOW", "UNKNOWN"}

\* bool(self.openai_api_key)
KeyTruthy(k) == k # NoneStr /\ k # ""

\* _validate without the check of timeout_trivy
validate_skips_trivy(c) ==
    IF c.timeout_hadolint <= 0 THEN "ValueError"
    ELSE IF c.timeout_llm <= 0 THEN "ValueError"
    ELSE IF ~(0 <= c.llm_temperature /\ c.llm_temperature <= 10) THEN "ValueError"
    ELSE IF c.max_retries_llm < 0 THEN "ValueError"
    ELSE IF c.retry_attempts <= 0 THEN "ValueError"
    ELSE IF c.retry_min_wait <= 0 \/ c.retry_max_wait <= 0 THEN "ValueError"
    ELSE IF c.retry_min_wait > c.retry_max_wait THEN "ValueError"
    ELSE IF c.max_file_size_mb <= 0 THEN "ValueError"
    ELSE "none"

\* _validate without the comparison of the two retry waits
validate_skips_wait_order(c) ==
    IF c.timeout_hadolint <= 0 THEN "ValueError"
    ELSE IF c.timeout_trivy <= 0 THEN "ValueError"
    ELSE IF c.timeout_llm <= 0 THEN "ValueError"
    ELSE IF ~(0 <= c.llm_temperature /\ c.llm_temperature <= 10) THEN "ValueError"
    ELSE IF c.max_retries_llm < 0 THEN "ValueError"
    ELSE IF c.retry_attempts <= 0 THEN "ValueError"
    ELSE IF c.retry_min_wait <= 0 \/ c.retry_max_wait <= 0 THEN "ValueError"
    ELSE IF c.max_file_size_mb <= 0 THEN "ValueError"
    ELSE IF \E i \in DOMAIN c.default_severity :
                c.default_severity[i] \notin valid_severities THEN "ValueError"
    ELSE "none"

\* _validate with the temperature bounds exclusive
validate_open_interval(c) ==
    IF c.timeout_hadolint <= 0 THEN "ValueError"
    ELSE IF c.timeout_trivy <= 0 THEN "ValueError"
    ELSE IF c.timeout_llm <= 0 THEN "ValueError"
    ELSE IF ~(0 < c.llm_temperature /\ c.llm_temperature < 10) THEN "ValueError"
    ELSE IF c.max_retries_llm < 0 THEN "ValueError"
    ELSE IF c.retry_attempts <= 0 THEN "ValueError"
    ELSE IF c.retry_min_wait <= 0 \/ c.retry_max_wait <= 0 THEN "ValueError"
    ELSE IF c.retry_min_wait > c.retry_max_wait THEN "ValueError"
    ELSE IF c.max_file_size_mb <= 0 THEN "ValueError"
    ELSE IF \E i \in DOMAIN c.default_severity :
                c.default_severity[i] \notin valid_severities THEN "ValueError"
    ELSE "none"

\* _validate: "none", or the ValueError of the first check that fails
validate(c) ==
    IF c.timeout_hadolint <= 0 THEN "ValueError"
    ELSE IF c.timeout_trivy <= 0 THEN "ValueError"
    ELSE IF c.timeout_llm <= 0 THEN "ValueError"
    ELSE IF ~(0 <= c.llm_temperature /\ c.llm_temperature <= 10) THEN "ValueError"
    ELSE IF c.max_retries_llm < 0 THEN "ValueError"
    ELSE IF c.retry_attempts <= 0 THEN "ValueError"
    ELSE IF c.retry_min_wait <= 0 \/ c.retry_max_wait <= 0 THEN "ValueError"
    ELSE IF c.retry_min_wait > c.retry_max_wait THEN "ValueError"
    ELSE IF c.max_file_size_mb <= 0 THEN "ValueError"
    ELSE IF \E i \in DOMAIN c.default_severity :
                c.default_severity[i] \notin valid_severities THEN "ValueError"
    ELSE "none"

\* update, lines 182-185: the overrides are applied one by one, in order, up
\* to the first name that is no attribute.
RECURSIVE apply_overrides(_, _)
apply_overrides(c, kw) ==
    IF kw = <<>> THEN [raised |-> "none", obj |-> c]
    ELSE IF Head(kw)[1] \notin FieldNames
         THEN [raised |-> "ValueError", obj |-> c]
         ELSE apply_overrides([c EXCEPT ![Head(kw)[1]] = Head(kw)[2]], Tail(kw))

\* update, lines 182-188
update(c, kw) ==
    LET a == apply_overrides(c, kw)
    IN  IF a.raised # "none" THEN a
        ELSE [raised |-> validate(a.obj), obj |-> a.obj]

\* os.getenv("OPENAI_API_KEY", "")
getenv_key(env) == IF env.OPENAI_API_KEY = NoneStr THEN "" ELSE env.OPENAI_API_KEY

\* The dataclass constructor followed by __post_init__.  makedirs_ok is
\* whether os.makedirs(results_dir) succeeded.  An unknown keyword is a
\* TypeError of the generated __init__.
construct(kw, env, makedirs_ok) ==
    LET a == apply_overrides(Defaults, kw)
        c == IF KeyTruthy(a.obj.openai_api_key) THEN a.obj
             ELSE [a.obj EXCEPT !.openai_api_key = getenv_key(env)]
        env2 == IF KeyTruthy(c.openai_api_key)
                THEN [env EXCEPT !.OPENAI_API_KEY = c.openai_api_key]
                ELSE env
    IN  IF a.raised # "none"
        THEN [raised |-> "TypeError", obj |-> Defaults, env |-> env]
        ELSE IF ~makedirs_ok
        THEN [raised |-> "OSError", obj |-> c, env |-> env]
        ELSE [raised |-> validate(c), obj |-> c, env |-> env2]

\* An integer variable of the environment: unset, a decimal numeral, or text
\* that int() rejects.
EnvUnset == [set |-> FALSE, numeric |-> FALSE, n |-> 0]
EnvInt(n) == [set |-> TRUE, numeric |-> TRUE, n |-> n]
EnvGarbage == [set |-> TRUE, numeric |-> FALSE, n |-> 0]

\* from_env: of the variables it reads, the model varies OPENAI_API_KEY and
\* DOCKSEC_TIMEOUT_TRIVY; the others are unset and give the defaults.
from_env(env, makedirs_ok) ==
    IF env.DOCKSEC_TIMEOUT_TRIVY.set /\ ~env.DOCKSEC_TIMEOUT_TRIVY.numeric
    THEN [raised |-> "ValueError", obj |-> Defaults, env |-> env]
    ELSE construct(<<<<"openai_api_key", env.OPENAI_API_KEY>>,
                     <<"timeout_trivy",
                       IF env.DOCKSEC_TIMEOUT_TRIVY.set
                       THEN env.DOCKSEC_TIMEOUT_TRIVY.n
                       ELSE Defaults.timeout_trivy>>>>,
                   env, makedirs_ok)

\* to_dict without hiding the credential
to_dict_leaking(c) ==
    [base_dir |-> c.base_dir,
     results_dir |-> c.results_dir,
     timeout_hadolint |-> c.timeout_hadolint,
     timeout_trivy |-> c.timeout_trivy,
     timeout_docker_scout |-> c.timeout_docker_scout,
     timeout_llm |-> c.timeout_llm,
     max_retries_llm |-> c.max_retries_llm,
     llm_model |-> c.llm_model,
     llm_temperature |-> c.llm_temperature,
     retry_attempts |-> c.retry_attempts,
     retry_min_wait |-> c.retry_min_wait,
     retry_max_wait |-> c.retry_max_wait,
     default_severity |-> c.default_severity,
     max_file_size_mb |-> c.max_file_size_mb,
     has_api_key |-> KeyTruthy(c.openai_api_key),
     openai_api_key |-> c.openai_api_key]

to_dict(c) ==
    [base_dir |-> c.base_dir,
     results_dir |-> c.results_dir,
     timeout_hadolint |-> c.timeout_hadolint,
     timeout_trivy |-> c.timeout_trivy,
     timeout_docker_scout |-> c.timeout_docker_scout,
     timeout_llm |-> c.timeout_llm,
     max_retries_llm |-> c.max_retries_llm,
     llm_model |-> c.llm_model,
     llm_temperature |-> c.llm_temperature,
     retry_attempts |-> c.retry_attempts,
     retry_min_wait |-> c.retry_min_wait,
     retry_max_wait |-> c.retry_max_wait,
     default_severity |-> c.default_severity,
     max_file_size_mb |-> c.max_file_size_mb,
     has_api_key |-> KeyTruthy(c.openai_api_key)]

\* The keys of to_dict() in the order the dictionary lists them.
dict_keys ==
    <<"base_dir", "results_dir", "timeout_hadolint", "timeout_trivy",
      "timeout_docker_scout", "timeout_llm", "max_retries_llm", "llm_model",
      "llm_temperature", "retry_attempts", "retry_min_wait", "retry_max_wait",
      "default_severity", "max_file_size_mb", "has_api_key">>

\* __repr__: the k=v items of to_dict(), in order
repr(c) == [i \in DOMAIN dict_keys |-> <<dict_keys[i], to_dict(c)[dict_keys[i]]>>]

(***************************************************************************)
(* Calls on settings objects and on the process-wide instance              *)
(***************************************************************************)
NumericFields ==
    {"timeout_hadolint", "timeout_trivy", "timeout_docker_scout", "timeout_llm",
     "max_retries_llm", "retry_attempts", "retry_min_wait", "retry_max_wait"}

\* Keyword arguments given to DocksecConfig(...) and to update(...)
SettingsOverrides ==
    {<<>>}
    \cup {<<<<f, n>>>> : f \in NumericFields, n \in {-1, 0}}
    \cup {<<<<f, 1>>>> : f \in {"timeout_trivy", "retry_min_wait", "retry_max_wait"}}
    \cup {<<<<"openai_api_key", k>>>> : k \in {"", "sk-A", "sk-B"}}
    \cup {<<<<"llm_temperature", t>>>> : t \in {-1, 0, 5, 10, 11, 15}}
    \cup {<<<<"retry_min_wait", 10>>, <<"retry_max_wait", 2>>>>,
          <<<<"retry_min_wait", 2>>, <<"retry_max_wait", 10>>>>,
          <<<<"retry_min_wait", 10>>>>,
          <<<<"retry_max_wait", 20>>, <<"no_such_key", 1>>>>,
          <<<<"no_such_key", 1>>>>}

LifecycleOverrides ==
    {<<>>, <<<<"openai_api_key", "sk-A">>>>, <<<<"timeout_trivy", 0>>>>}

Environs ==
    [OPENAI_API_KEY : {NoneStr, "sk-E"},
     DOCKSEC_TIMEOUT_TRIVY : {EnvUnset, EnvInt(0), EnvGarbage}]

MaxUpdates == 1
MaxInstances == 3

\* What a call leaves in cfg_last.
Call(op, target, raised, ret, out) ==
    [op |-> op, target |-> target, raised |-> raised, ret |-> ret, out |-> out,
     built |-> FALSE, first |-> FALSE, cached |-> cfg_global,
     prev |-> hist_prev_get, kw |-> <<>>]

CfgInit ==
    /\ cfg_heap = <<>>
    /\ cfg_global = 0
    /\ environ \in Environs
    /\ cfg_before = Defaults
    /\ n_updates = 0
    /\ hist_mode = "fresh"
    /\ hist_set = 0
    /\ hist_first = 0
    /\ hist_prev_get = 0
    /\ cfg_last = Call("none", 0, "none", 0, <<>>)

histVars == <<hist_mode, hist_set, hist_first, hist_prev_get>>

\* DocksecConfig(**kw), by a caller that keeps the object
NewSettings(ovs, room) ==
    /\ room
    /\ \E kw \in ovs, makedirs_ok \in BOOLEAN :
         LET r == construct(kw, environ, makedirs_ok) IN
         /\ environ' = r.env
         /\ cfg_heap' = IF r.raised = "none" THEN Append(cfg_heap, r.obj)
                        ELSE cfg_heap
         /\ cfg_last' = [Call("new", IF r.raised = "none" THEN Len(cfg_heap) + 1
                                     ELSE 0, r.raised, 0, <<>>)
                            EXCEPT !.kw = kw]
    /\ UNCHANGED <<cfg_global, cfg_before, n_updates, histVars>>

\* DocksecConfig.from_env(), by a caller that keeps the object
FromEnv(room) ==
    /\ room
    /\ \E makedirs_ok \in BOOLEAN :
         LET r == from_env(environ, makedirs_ok) IN
         /\ environ' = r.env
         /\ cfg_heap' = IF r.raised = "none" THEN Append(cfg_heap, r.obj)
                        ELSE cfg_heap
         /\ cfg_last' = Call("from_env", IF r.raised = "none"
                                         THEN Len(cfg_heap) + 1 ELSE 0,
                             r.raised, 0, <<>>)
    /\ UNCHANGED <<cfg_global, cfg_before, n_updates, histVars>>

\* reset_config that forgets to clear _config
reset_config_keeps == cfg_global

\* reset_config, line 283: the new value of _config
reset_config == 0

\* get_config that takes the cached instance for missing when it is there
get_config_cached_ignored(cached) == FALSE

\* get_config, line 260: whether the cached instance is returned
get_config_cached(cached) == cached # 0

\* get_config()
GetConfig ==
    /\ get_config_cached(cfg_global) \/ Len(cfg_heap) < MaxInstances
    /\ LET first == hist_mode = "fresh" /\ hist_first = 0 IN
       IF get_config_cached(cfg_global)
       THEN /\ cfg_last' = [Call("get_config", cfg_global, "none", cfg_global, <<>>)
                              EXCEPT !.first = first]
            /\ hist_first' = IF first THEN cfg_global ELSE hist_first
            /\ hist_prev_get' = cfg_global
            /\ UNCHANGED <<cfg_heap, cfg_global, environ>>
       ELSE \E makedirs_ok \in BOOLEAN :
              LET r == from_env(environ, makedirs_ok)
                  new == Len(cfg_heap) + 1
              IN  /\ environ' = r.env
                  /\ IF r.raised = "none"
                     THEN /\ cfg_heap' = Append(cfg_heap, r.obj)
                          /\ cfg_global' = new
                          /\ cfg_last' = [Call("get_config", new, "none", new, <<>>)
                                            EXCEPT !.first = first, !.built = TRUE]
                          /\ hist_first' = IF first THEN new ELSE hist_first
                          /\ hist_prev_get' = new
                     ELSE /\ cfg_last' = Call("get_config", 0, r.raised, 0, <<>>)
                          /\ UNCHANGED <<cfg_heap, cfg_global, hist_first,
                                         hist_prev_get>>
    /\ UNCHANGED <<cfg_before, n_updates, hist_mode, hist_set>>

\* set_config(config), with an object the caller holds
SetConfig ==
    /\ \E i \in DOMAIN cfg_heap :
         /\ cfg_global' = i
         /\ hist_set' = i
         /\ cfg_last' = Call("set_config", i, "none", 0, <<>>)
    /\ hist_mode' = "set"
    /\ hist_first' = 0
    /\ hist_prev_get' = 0
    /\ UNCHANGED <<cfg_heap, environ, cfg_before, n_updates>>

\* reset_config()
ResetConfig ==
    /\ cfg_global' = reset_config
    /\ cfg_last' = Call("reset_config", 0, "none", 0, <<>>)
    /\ hist_mode' = "fresh"
    /\ hist_set' = 0
    /\ hist_first' = 0
    /\ hist_prev_get' = 0
    /\ UNCHANGED <<cfg_heap, environ, cfg_before, n_updates>>

\* config.update(**kw)
Update(ovs) ==
    /\ n_updates < MaxUpdates
    /\ \E i \in DOMAIN cfg_heap, kw \in ovs :
         LET r == update(cfg_heap[i], kw) IN
         /\ cfg_heap' = [cfg_heap EXCEPT ![i] = r.obj]
         /\ cfg_before' = cfg_heap[i]
         /\ cfg_last' = [Call("update", i, r.raised, 0, <<>>) EXCEPT !.kw = kw]
    /\ n_updates' = n_updates + 1
    /\ UNCHANGED <<cfg_global, environ, histVars>>

\* config.to_dict()
ToDict ==
    /\ \E i \in DOMAIN cfg_heap :
         cfg_last' = Call("to_dict", i, "none", 0, to_dict(cfg_heap[i]))
    /\ UNCHANGED <<cfg_heap, cfg_global, environ, cfg_before, n_updates, histVars>>

\* repr(config)
Repr ==
    /\ \E i \in DOMAIN cfg_heap :
         cfg_last' = Call("repr", i, "none", 0, repr(cfg_heap[i]))
    /\ UNCHANGED <<cfg_heap, cfg_global, environ, cfg_before, n_updates, histVars>>

\* One settings object: built, made the process-wide instance or not,
\* updated, serialised.
SettingsNext ==
    \/ NewSettings(SettingsOverrides, cfg_heap = <<>>)
    \/ FromEnv(cfg_heap = <<>>)
    \/ SetConfig
    \/ Update(SettingsOverrides)
    \/ ToDict
    \/ Repr

\* The process-wide instance among the objects of the process.
LifecycleNext ==
    \/ NewSettings(LifecycleOverrides, Len(cfg_heap) < MaxInstances)
    \/ GetConfig
    \/ SetConfig
    \/ ResetConfig

(***************************************************************************)
(* SecurityScoreCalculator.get_score_breakdown (score_calculator.py).      *)
(* The overall score is held in tenths.                                    *)
(***************************************************************************)
\* max(0, n) replaced by n
unclamped(n) == n

\* max(0, n)
Max0(n) == IF n > 0 THEN n ELSE 0

\* len(output.split('\n'))
RECURSIVE split_lines_count(_)
split_lines_count(text) ==
    IF text = <<>> THEN 1
    ELSE (IF Head(text) = "\n" THEN 1 ELSE 0) + split_lines_count(Tail(text))

\* sum(1 for v in vulnerabilities if v.get('Severity') == sev)
RECURSIVE severity_count(_, _)
severity_count(vulnerabilities, sev) ==
    IF vulnerabilities = <<>> THEN 0
    ELSE (IF Head(vulnerabilities).Severity = sev THEN 1 ELSE 0)
         + severity_count(Tail(vulnerabilities), sev)

deduction(vulnerabilities) ==
    severity_count(vulnerabilities, "CRITICAL") * 10
    + severity_count(vulnerabilities, "HIGH") * 5
    + severity_count(vulnerabilities, "MEDIUM") * 2
    + severity_count(vulnerabilities, "LOW") * 1

\* the vulnerability score without max(0, ...)
vulnerability_score_unclamped(json_data) ==
    IF ~Truthy(json_data) THEN 100 ELSE 100 - deduction(json_data.v)

\* get_score_breakdown, lines 128-140
vulnerability_score(json_data) ==
    IF ~Truthy(json_data) THEN 100 ELSE Max0(100 - deduction(json_data.v))

\* get_score_breakdown, lines 119-125
dockerfile_score(dockerfile_scan) ==
    IF dockerfile_scan.success THEN 100
    ELSE LET output == dockerfile_scan.output
             issue_count == IF Truthy(output) THEN split_lines_count(output.v)
                            ELSE 0
         IN  Max0(100 - issue_count * 5)

\* get_score_breakdown with the three sub-scores weighted equally
get_score_breakdown_unweighted(r) ==
    LET d == dockerfile_score(r.dockerfile_scan)
        v == vulnerability_score(r.json_data)
        c == 75
    IN  [dockerfile |-> d, vulnerabilities |-> v, configuration |-> c,
         overall10 |-> (d + v + c) * 3]

InitialBreakdown ==
    [dockerfile |-> 0, vulnerabilities |-> 0, configuration |-> 0, overall10 |-> 0]

get_score_breakdown(r) ==
    LET d == dockerfile_score(r.dockerfile_scan)
        v == vulnerability_score(r.json_data)
        c == 75
    IN  [dockerfile |-> d, vulnerabilities |-> v, configuration |-> c,
         overall10 |-> d * 3 + v * 5 + c * 2]

\* Scan-result records: a lint outcome and a list of findings.
Severities == {"CRITICAL", "HIGH", "MEDIUM", "LOW", "UNKNOWN", NoneStr}

Finding(sev) == filtered_vulnerability("img", RawVuln("CVE-1", sev, <<>>))

Repeat(x, n) == [i \in 1..n |-> x]

MaxRun == 11
MaxTail == 1
MaxLintLines == 21

\* A run of findings of one severity followed by a few of any severity.
FindingLists ==
    {Repeat(Finding(s), n) \o t :
        s \in Severities, n \in 0..MaxRun,
        t \in UNION {[1..k -> {Finding(x) : x \in Severities}] : k \in 0..MaxTail}}

LintOutcomes ==
    {[success |-> TRUE, output |-> OptNone], [success |-> FALSE, output |-> OptNone]}
    \cup {[success |-> FALSE, output |-> Some(t)] : t \in Texts}
    \cup {[success |-> FALSE, output |-> Some(Repeat("\n", n))] : n \in 1..MaxLintLines}

ScoreInputs ==
    [dockerfile_scan : LintOutcomes,
     image_scan : {[success |-> TRUE, output |-> Some(<<>>)]},
     json_data : {OptNone} \cup {Some(l) : l \in FindingLists}]

\* What score_chain.invoke({"results": results}) can do: raise, return
\* something without a score attribute, or return a response whose score is
\* a number or is not a number.
LlmScores == {0, 49, 50, 69, 70, 89, 90, 100}

LlmRaises == [kind |-> "raises", score |-> 0]
LlmNoScore == [kind |-> "noscore", score |-> 0]
LlmNotNumber == [kind |-> "notnumber", score |-> 0]
LlmScore(n) == [kind |-> "score", score |-> n]
LlmNotInvoked == [kind |-> "notinvoked", score |-> 0]

LlmResponses ==
    {LlmRaises, LlmNoScore, LlmNotNumber} \cup {LlmScore(n) : n \in LlmScores}

ScoreNotCalculated == [raised |-> "notcalled", value |-> 0, feedback |-> "none"]

\* calculate_score, lines 73-82
feedback(score) ==
    IF score >= 90 THEN "EXCELLENT"
    ELSE IF score >= 70 THEN "GOOD"
    ELSE IF score >= 50 THEN "FAIR"
    ELSE "POOR"

\* calculate_score with a handler for the failures of the call only
calculate_score_call_errors_only(response) ==
    IF response.kind = "raises"
    THEN [raised |-> "none", value |-> 0, feedback |-> "ERROR"]
    ELSE IF response.kind = "noscore"
    THEN [raised |-> "AttributeError", value |-> 0, feedback |-> "none"]
    ELSE IF response.kind = "notnumber"
    THEN [raised |-> "TypeError", value |-> 0, feedback |-> "none"]
    ELSE [raised |-> "none", value |-> response.score,
          feedback |-> feedback(response.score)]

\* calculate_score: everything is inside try / except Exception.
calculate_score(response) ==
    IF response.kind \in {"raises", "noscore", "notnumber"}
    THEN [raised |-> "none", value |-> 0, feedback |-> "ERROR"]
    ELSE [raised |-> "none", value |-> response.score,
          feedback |-> feedback(response.score)]

LlmIdle ==
    /\ llm_response = LlmNotInvoked
    /\ llm_ret = ScoreNotCalculated

ScoreInit ==
    /\ score_pc = "ready"
    /\ score_results \in ScoreInputs
    /\ score_breakdown = InitialBreakdown
    /\ LlmIdle

LlmScoreInit ==
    /\ score_pc = "ready"
    /\ score_results \in RunFullScanRecords
    /\ score_breakdown = InitialBreakdown
    /\ LlmIdle

CalculateScore ==
    /\ score_pc = "ready"
    /\ \E response \in LlmResponses :
         /\ llm_response' = response
         /\ llm_ret' = calculate_score(response)
    /\ score_pc' = "scored"
    /\ UNCHANGED <<score_results, score_breakdown>>

LlmScoreNext == CalculateScore

ScoreIdle ==
    /\ score_pc = "idle"
    /\ score_results = InitialResults
    /\ score_breakdown = InitialBreakdown
    /\ LlmIdle

GetScoreBreakdown ==
    /\ score_pc = "ready"
    /\ score_breakdown' = get_score_breakdown(score_results)
    /\ score_pc' = "done"
    /\ UNCHANGED <<score_results, llm_response, llm_ret>>

ScoreNext == GetScoreBreakdown

(***************************************************************************)
(* ReportGenerator (report_generator.py).  A path is a sequence of         *)
(* strings; the empty sequence is the empty string.                        *)
(***************************************************************************)
results_dir == <<"results", "/">>

\* the substitution applied to the colon only
safe_name_colon_only(name) ==
    [i \in 1..Len(name) |-> IF name[i] = ":" THEN "_" ELSE name[i]]

\* re.sub(r'[:/.\-]', '_', image_name)
safe_name(name) ==
    [i \in 1..Len(name) |->
        IF name[i] \in {":", "/", ".", "-"} THEN "_" ELSE name[i]]

get_safe_filename(name, extension) ==
    results_dir \o safe_name(name) \o <<"_scan_results.", extension>>

\* _escape_html: the escape table, and the join over the characters of the
\* text.  An escaped character is held as one element, its entity.
html_escape_table(c) ==
    CASE c = "&" -> "&amp;"
      [] c = "\"" -> "&quot;"
      [] c = "'" -> "&#x27;"
      [] c = ">" -> "&gt;"
      [] c = "<" -> "&lt;"
      [] OTHER -> c

\* _escape_html with every character kept as it is
escape_html_identity(text) == text

escape_html(text) ==
    IF text = <<>> THEN <<>>
    ELSE [i \in 1..Len(text) |-> html_escape_table(text[i])]

\* _count_by_severity
severity_counts_zero ==
    [CRITICAL |-> 0, HIGH |-> 0, MEDIUM |-> 0, LOW |-> 0, UNKNOWN |-> 0]

\* _count_by_severity with unrecognised severities dropped
RECURSIVE count_recognised_only(_, _)
count_recognised_only(counts, vulnerabilities) ==
    IF vulnerabilities = <<>> THEN counts
    ELSE LET severity == Head(vulnerabilities).Severity
         IN  count_recognised_only(
                 IF severity \in DOMAIN counts
                 THEN [counts EXCEPT ![severity] = @ + 1] ELSE counts,
                 Tail(vulnerabilities))

RECURSIVE count_loop(_, _)
count_loop(counts, vulnerabilities) ==
    IF vulnerabilities = <<>> THEN counts
    ELSE LET severity == Head(vulnerabilities).Severity
             key == IF severity \in DOMAIN counts THEN severity ELSE "UNKNOWN"
         IN  count_loop([counts EXCEPT ![key] = @ + 1], Tail(vulnerabilities))

\* _count_by_severity that starts counting at the second finding
count_by_severity_after_first(vulnerabilities) ==
    count_loop(severity_counts_zero,
               IF vulnerabilities = <<>> THEN <<>> ELSE Tail(vulnerabilities))

count_by_severity(vulnerabilities) ==
    count_loop(severity_counts_zero, vulnerabilities)

\* seq[:n]
first(seq, n) == IF Len(seq) <= n THEN seq ELSE SubSeq(seq, 1, n)

\* str() of a value held as one string: the text of that one element
Str(atom) == <<atom>>

\* A file of the results directory
NoFile == [kind |-> "absent"]
OldFile == [kind |-> "old"]

\* generate_json_report: len(json_results) is evaluated before the try block.
generate_json_report(name, score, r, write_ok) ==
    IF r.json_data.isNone
    THEN [raised |-> "TypeError", path |-> <<>>, content |-> NoFile]
    ELSE [raised |-> "none",
          path |-> IF write_ok THEN get_safe_filename(name, "json") ELSE <<>>,
          content |->
            [kind |-> "json",
             scan_info |-> [image |-> name, dockerfile |-> "N/A",
                            analysis_score |-> score, scan_mode |-> "full"],
             vulnerabilities |-> r.json_data.v,
             summary |-> [total_vulnerabilities |-> Len(r.json_data.v),
                          by_severity |-> count_by_severity(r.json_data.v)]]]

\* generate_csv_report, lines 140-143
fieldnames ==
    <<"VulnerabilityID", "Severity", "PkgName", "InstalledVersion", "Title",
      "Description", "CVSS", "Status", "Target", "PrimaryURL">>

\* writer.writerow({k: vuln.get(k, "") for k in fieldnames})
csv_row(vuln) == [i \in 1..Len(fieldnames) |-> vuln[fieldnames[i]]]

\* generate_csv_report with the rows written last finding first
csv_rows_reversed(vulnerabilities) ==
    [i \in 1..Len(vulnerabilities) |->
        csv_row(vulnerabilities[Len(vulnerabilities) + 1 - i])]

csv_rows(vulnerabilities) ==
    [i \in 1..Len(vulnerabilities) |-> csv_row(vulnerabilities[i])]

\* generate_csv_report: nothing is written when there are no findings.
generate_csv_report(name, score, r, write_ok) ==
    IF ~Truthy(r.json_data)
    THEN [raised |-> "none", path |-> <<>>, content |-> NoFile]
    ELSE [raised |-> "none",
          path |-> IF write_ok THEN get_safe_filename(name, "csv") ELSE <<>>,
          content |-> [kind |-> "csv", header |-> fieldnames,
                       rows |-> csv_rows(r.json_data.v)]]

\* str(self.analysis_score)
score_text(score) == IF score.isNone THEN "None" ELSE ToString(score.v)

\* generate_pdf_report: the whole body is inside the try block.
generate_pdf_report(name, score, r, write_ok) ==
    [raised |-> "none",
     path |-> IF write_ok THEN get_safe_filename(name, "pdf") ELSE <<>>,
     content |->
       [kind |-> "pdf", image |-> name, analysis_score |-> score_text(score),
        summary |-> IF Truthy(r.json_data)
                    THEN count_by_severity(r.json_data.v)
                    ELSE severity_counts_zero]]

\* _prepare_html_template_vars: the table shows the first 50 findings.
MaxHtmlRows == 50

\* _prepare_html_template_vars raises on dockerfile_output[:2000] of an
\* absent output and on vuln.get('Severity', 'UNKNOWN').lower() of an absent
\* severity.
html_vars_raise(r) ==
    \/ ~r.dockerfile_scan.success /\ r.dockerfile_scan.output.isNone
    \/ /\ Truthy(r.json_data)
       /\ \E i \in 1..Len(r.json_data.v) :
            i <= MaxHtmlRows /\ r.json_data.v[i].Severity = NoneStr

\* f"{cvss_score:.1f}" of a number, str() of anything else
cvss_text(cvss) ==
    IF cvss.isNone THEN "None"
    ELSE IF cvss.v = 0 THEN "0.0"
    ELSE ToString(cvss.v \div 10) \o "." \o ToString(cvss.v % 10)

TitleHtmlLimit == 80

\* (title[:80] + '...') if len(title) > 80 else title
truncate_title(title) ==
    IF Len(title) > TitleHtmlLimit
    THEN first(title, TitleHtmlLimit) \o <<".", ".", ".">> ELSE title

\* _prepare_html_template_vars, lines 421-442: one table row
html_row(vuln) ==
    <<"<tr><td>">> \o escape_html(Str(vuln.VulnerabilityID))
    \o <<"</td><td><span>">> \o Str(vuln.Severity)
    \o <<"</span></td><td>">> \o escape_html(Str(vuln.PkgName))
    \o <<"</td><td>">> \o escape_html(Str(vuln.InstalledVersion))
    \o <<"</td><td>">> \o escape_html(truncate_title(vuln.Title))
    \o <<"</td><td>">> \o Str(cvss_text(vuln.CVSS))
    \o <<"</td><td><span>">> \o Str(vuln.Status) \o <<"</span></td></tr>">>

RECURSIVE html_rows(_)
html_rows(vulnerabilities) ==
    IF vulnerabilities = <<>> THEN <<>>
    ELSE html_row(Head(vulnerabilities)) \o html_rows(Tail(vulnerabilities))

LintHtmlLimit == 2000

\* _prepare_html_template_vars, for a record it does not raise on
html_template_vars(name, score, r) ==
    [IMAGE_NAME |-> name,
     SCAN_MODE |-> <<"Full">>,
     SCAN_MODE_TITLE |-> <<"Full Scan">>,
     DOCKERFILE_PATH |-> <<"N/A">>,
     SCAN_DATE |-> <<>>,
     ANALYSIS_SCORE |-> IF ~score.isNone /\ score.v # 0
                        THEN Str(ToString(score.v)) ELSE <<"N/A">>,
     SECURITY_SCORE_SECTION |-> <<>>,
     IMAGE_INFO_SECTION |-> <<>>,
     CONFIG_ANALYSIS_SECTION |-> <<>>,
     DOCKERFILE_SECTION |->
        IF r.dockerfile_scan.success
        THEN <<"<div class=section><div class=no-issues></div></div>">>
        ELSE LET dockerfile_output == r.dockerfile_scan.output.v
             IN  <<"<div class=section><pre>">>
                 \o escape_html(first(dockerfile_output, LintHtmlLimit))
                 \o <<"</pre>">>
                 \o (IF Len(dockerfile_output) > LintHtmlLimit
                     THEN <<"<p>truncated</p>">> ELSE <<>>)
                 \o <<"</div>">>,
     VULNERABILITY_SUMMARY |->
        IF ~Truthy(r.json_data) THEN <<"<div class=no-issues></div>">>
        ELSE LET c == count_by_severity(r.json_data.v)
             IN  <<"<div class=severity-stats>", ToString(c.CRITICAL),
                   ToString(c.HIGH), ToString(c.MEDIUM), ToString(c.LOW),
                   "</div>", ToString(Len(r.json_data.v))>>,
     DETAILED_VULNERABILITIES_SECTION |->
        IF ~Truthy(r.json_data) THEN <<>>
        ELSE <<"<table>">>
             \o html_rows(first(r.json_data.v, MaxHtmlRows))
             \o <<"</table>">>
             \o (IF Len(r.json_data.v) > MaxHtmlRows
                 THEN <<"<p>showing 50</p>">> ELSE <<>>)]

\* f'{{{{{key}}}}}': the double-brace token of a key.  A token is one
\* element of a text, in the template and in the values alike.
placeholder(key) == "{{" \o key \o "}}"

\* The keys of template_vars in the order they are inserted, which is the
\* order template_vars.items() yields them.
template_keys ==
    <<"IMAGE_NAME", "SCAN_MODE", "SCAN_MODE_TITLE", "DOCKERFILE_PATH",
      "SCAN_DATE", "ANALYSIS_SCORE", "SECURITY_SCORE_SECTION",
      "IMAGE_INFO_SECTION", "CONFIG_ANALYSIS_SECTION", "DOCKERFILE_SECTION",
      "VULNERABILITY_SUMMARY", "DETAILED_VULNERABILITIES_SECTION">>

\* The page template with its placeholders, in the order it shows them.
html_template ==
    <<"<html><title>", placeholder("IMAGE_NAME"),
      "</title><h1>", placeholder("SCAN_MODE_TITLE"),
      "</h1><p>", placeholder("IMAGE_NAME"),
      "</p><p>", placeholder("SCAN_MODE"),
      "</p><p>", placeholder("DOCKERFILE_PATH"),
      "</p><p>", placeholder("SCAN_DATE"),
      "</p><p>", placeholder("ANALYSIS_SCORE"),
      "</p>", placeholder("SECURITY_SCORE_SECTION"),
      placeholder("IMAGE_INFO_SECTION"),
      placeholder("CONFIG_ANALYSIS_SECTION"),
      placeholder("DOCKERFILE_SECTION"),
      placeholder("VULNERABILITY_SUMMARY"),
      placeholder("DETAILED_VULNERABILITIES_SECTION"), "</html>">>

\* str.replace(old, new): every occurrence of old in the text as it is
\* when the call is made; the text put in by this call is not looked at
\* again by this call.
RECURSIVE replace(_, _, _)
replace(text, old, new) ==
    IF text = <<>> THEN <<>>
    ELSE (IF Head(text) = old THEN new ELSE <<Head(text)>>)
         \o replace(Tail(text), old, new)

\* generate_html_report, lines 308-310: one replace per key, each over the
\* whole content the earlier ones produced
RECURSIVE replace_keys(_, _, _)
replace_keys(html_content, template_vars, keys) ==
    IF keys = <<>> THEN html_content
    ELSE replace_keys(replace(html_content, placeholder(Head(keys)),
                              template_vars[Head(keys)]),
                      template_vars, Tail(keys))

substitute(template, template_vars) ==
    replace_keys(template, template_vars, template_keys)

\* generate_html_report: the whole body is inside the try block.
generate_html_report(name, score, r, write_ok) ==
    IF html_vars_raise(r)
    THEN [raised |-> "none", path |-> <<>>, content |-> NoFile]
    ELSE [raised |-> "none",
          path |-> IF write_ok THEN get_safe_filename(name, "html") ELSE <<>>,
          content |-> [kind |-> "html",
                       page |-> substitute(html_template,
                                           html_template_vars(name, score, r))]]

generator(format, name, score, r, write_ok) ==
    CASE format = "json" -> generate_json_report(name, score, r, write_ok)
      [] format = "csv" -> generate_csv_report(name, score, r, write_ok)
      [] format = "pdf" -> generate_pdf_report(name, score, r, write_ok)
      [] format = "html" -> generate_html_report(name, score, r, write_ok)

\* generate_all_reports calls the generators in this order.
report_order == <<"json", "csv", "pdf", "html">>

NoPaths == [json |-> <<>>, csv |-> <<>>, pdf |-> <<>>, html |-> <<>>]

ImageNames ==
    {<<"r", "/", "n", ":", "1", ".", "0">>, <<"a", "-", "b">>,
     <<"m", "y", "a", "p", "p", ":", "l", "a", "t", "e", "s", "t">>,
     <<"<", "b", ">">>, <<"n", placeholder("SCAN_DATE")>>,
     <<placeholder("ANALYSIS_SCORE")>>}

\* No generator reads the text-mode scan of the record.
ReportRecords ==
    {r \in RunFullScanRecords : Len(r.image_scan.output.v) <= 1}

NoFiles == [json |-> NoFile, csv |-> NoFile, pdf |-> NoFile, html |-> NoFile]
OldFiles == [json |-> OldFile, csv |-> OldFile, pdf |-> OldFile, html |-> OldFile]

AnalysisScores == {0, 75}

RepInit ==
    /\ rep_pc = "new"
    /\ image_name \in ImageNames
    /\ analysis_score = OptNone
    /\ rep_results \in ReportRecords
    /\ rep_files \in {NoFiles, OldFiles}
    /\ report_paths = NoPaths
    /\ rep_attempted = <<>>
    /\ rep_raised = "none"

RepIdle ==
    /\ rep_pc = "idle"
    /\ image_name = <<>>
    /\ analysis_score = OptNone
    /\ rep_results = InitialResults
    /\ rep_files = NoFiles
    /\ report_paths = NoPaths
    /\ rep_attempted = <<>>
    /\ rep_raised = "none"

SetAnalysisScore ==
    /\ rep_pc = "new"
    /\ analysis_score = OptNone
    /\ \E score \in AnalysisScores : analysis_score' = Some(score)
    /\ UNCHANGED <<rep_pc, image_name, rep_results, rep_files, report_paths,
                   rep_attempted, rep_raised>>

\* generate_all_reports, lines 512-517
StartReports ==
    /\ rep_pc = "new"
    /\ rep_pc' = report_order[1]
    /\ report_paths' = NoPaths
    /\ UNCHANGED <<image_name, analysis_score, rep_results, rep_files,
                   rep_attempted, rep_raised>>

\* generate_all_reports, one generator call and the assignment after it
GenerateReport ==
    /\ rep_pc \in {report_order[i] : i \in 1..Len(report_order)}
    /\ \E write_ok \in BOOLEAN :
         LET g == generator(rep_pc, image_name, analysis_score, rep_results,
                            write_ok)
             n == Len(rep_attempted) + 1
         IN  /\ rep_attempted' = Append(rep_attempted, rep_pc)
             /\ IF g.raised # "none"
                THEN /\ rep_raised' = g.raised
                     /\ rep_pc' = "raised"
                     /\ UNCHANGED <<report_paths, rep_files>>
                ELSE /\ report_paths' =
                          IF g.path # <<>>
                          THEN [report_paths EXCEPT ![rep_pc] = g.path]
                          ELSE report_paths
                     /\ rep_files' =
                          IF g.path # <<>>
                          THEN [rep_files EXCEPT ![rep_pc] = g.content]
                          ELSE rep_files
                     /\ rep_pc' = IF n = Len(report_order) THEN "done"
                                  ELSE report_order[n + 1]
                     /\ UNCHANGED rep_raised
    /\ UNCHANGED <<image_name, analysis_score, rep_results>>

RepNext == SetAnalysisScore \/ StartReports \/ GenerateReport

(***************************************************************************)
(* The helper functions, each called once on an argument of a bounded set. *)
(***************************************************************************)
MaxTextLen == 3
MaxDescLen == 152

TextChars == {"&", "\"", "'", ">", "<", "a", ":", "/", ".", "-", "_"}

TextsUpTo(n) == UNION {[1..k -> TextChars] : k \in 0..n}

ScriptText == <<"<", "s", "c", "r", "i", "p", "t", ">", "&", "\"", "'">>

MyappLatest == <<"m", "y", "a", "p", "p", ":", "l", "a", "t", "e", "s", "t">>

Extensions == {"json", "csv", "pdf", "html"}

\* Structured scanner output with one finding whose description has n
\* characters
DocWithDescription(n) ==
    JsonObject(<<[Target |-> "img",
                  Vulnerabilities |-> <<RawVuln("CVE-1", "HIGH", Desc(n))>>]>>)

FnNotReturned == [fn |-> "none"]

\* The record of a run with clean lint and text scans and these findings
RecordWithFindings(vulnerabilities) ==
    [dockerfile_scan |-> [success |-> TRUE, output |-> OptNone],
     image_scan |-> [success |-> TRUE, output |-> Some(<<>>)],
     json_data |-> Some(vulnerabilities)]

FnInit ==
    /\ fn_pc = "ready"
    /\ fn_out = FnNotReturned
    /\ \/ fn_in \in [fn : {"_escape_html"},
                     text : TextsUpTo(MaxTextLen) \cup {ScriptText}]
       \/ fn_in \in [fn : {"_count_by_severity"}, vulnerabilities : FindingLists]
       \/ fn_in \in [fn : {"_get_safe_filename"},
                     name : TextsUpTo(MaxTextLen) \cup {MyappLatest},
                     extension : Extensions]
       \/ fn_in \in {[fn |-> "generate_json_report",
                      results |-> RecordWithFindings(l)] : l \in FindingLists}
       \/ fn_in \in {[fn |-> "_filter_scan_results",
                      scan_results |-> DocWithDescription(n)] :
                        n \in (0..MaxDescLen) \cup {200}}

FnIdle ==
    /\ fn_pc = "idle"
    /\ fn_in = FnNotReturned
    /\ fn_out = FnNotReturned

EscapeHtml ==
    /\ fn_pc = "ready"
    /\ fn_in.fn = "_escape_html"
    /\ fn_out' = [fn |-> fn_in.fn, text |-> escape_html(fn_in.text)]
    /\ fn_pc' = "returned"
    /\ UNCHANGED fn_in

CountBySeverity ==
    /\ fn_pc = "ready"
    /\ fn_in.fn = "_count_by_severity"
    /\ fn_out' = [fn |-> fn_in.fn,
                  counts |-> count_by_severity(fn_in.vulnerabilities)]
    /\ fn_pc' = "returned"
    /\ UNCHANGED fn_in

GetSafeFilename ==
    /\ fn_pc = "ready"
    /\ fn_in.fn = "_get_safe_filename"
    /\ fn_out' = [fn |-> fn_in.fn,
                  path |-> get_safe_filename(fn_in.name, fn_in.extension)]
    /\ fn_pc' = "returned"
    /\ UNCHANGED fn_in

FilterScanResults ==
    /\ fn_pc = "ready"
    /\ fn_in.fn = "_filter_scan_results"
    /\ fn_out' = [fn |-> fn_in.fn,
                  filtered |-> filter_scan_results(fn_in.scan_results)]
    /\ fn_pc' = "returned"
    /\ UNCHANGED fn_in

\* generate_json_report of a generator for myapp:latest with no score set
GenerateJsonReport ==
    /\ fn_pc = "ready"
    /\ fn_in.fn = "generate_json_report"
    /\ fn_out' = [fn |-> fn_in.fn,
                  report |-> generate_json_report(MyappLatest, OptNone,
                                                  fn_in.results, TRUE).content]
    /\ fn_pc' = "returned"
    /\ UNCHANGED fn_in

FnNext ==
    \/ EscapeHtml
    \/ CountBySeverity
    \/ GetSafeFilename
    \/ FilterScanResults
    \/ GenerateJsonReport

(***************************************************************************)
(* Specifications                                                          *)
(***************************************************************************)
\* The parts of the state a specification does not exercise stay as they are.
ScanIdle ==
    /\ pc = "idle"
    /\ argc = 1
    /\ dockerfile_exists = FALSE
    /\ tool_idx = 1
    /\ missing_tools = <<>>
    /\ tool_results = <<>>
    /\ invocations = <<>>
    /\ lint_proc = NoProc
    /\ text_proc = NoProc
    /\ json_proc = NoJsonProc
    /\ lint_ret = NotCalled
    /\ text_ret = NotCalled
    /\ json_ret = NotCalled
    /\ results = InitialResults
    /\ scan_status = TRUE
    /\ returned = FALSE
    /\ saved_file = OptNone
    /\ error = NoError
    /\ exit_code = -1

CfgIdle ==
    /\ cfg_heap = <<>>
    /\ cfg_global = 0
    /\ environ = [OPENAI_API_KEY |-> NoneStr, DOCKSEC_TIMEOUT_TRIVY |-> EnvUnset]
    /\ cfg_before = Defaults
    /\ n_updates = 0
    /\ hist_mode = "fresh"
    /\ hist_set = 0
    /\ hist_first = 0
    /\ hist_prev_get = 0
    /\ cfg_last = Call("none", 0, "none", 0, <<>>)

\* The scanner command
Init == ScanInit /\ CfgIdle /\ ScoreIdle /\ RepIdle /\ FnIdle
Next == ScanNext /\ UNCHANGED <<cfgVars, scoreVars, repVars, fnVars>>
Spec == Init /\ [][Next]_vars

\* A settings object
SettingsInit == CfgInit /\ ScanIdle /\ ScoreIdle /\ RepIdle /\ FnIdle
SettingsStep == SettingsNext /\ UNCHANGED <<scanVars, scoreVars, repVars, fnVars>>
SpecSettings == SettingsInit /\ [][SettingsStep]_vars

\* The process-wide settings instance
LifecycleInit == CfgInit /\ ScanIdle /\ ScoreIdle /\ RepIdle /\ FnIdle
LifecycleStep == LifecycleNext /\ UNCHANGED <<scanVars, scoreVars, repVars, fnVars>>
SpecLifecycle == LifecycleInit /\ [][LifecycleStep]_vars

\* The deterministic score breakdown of a scan-result record
ScoreSpecInit == ScoreInit /\ ScanIdle /\ CfgIdle /\ RepIdle /\ FnIdle
ScoreStep == ScoreNext /\ UNCHANGED <<scanVars, cfgVars, repVars, fnVars>>
SpecScore == ScoreSpecInit /\ [][ScoreStep]_vars

\* The LLM-based score of a record run_full_scan can return
LlmScoreSpecInit == LlmScoreInit /\ ScanIdle /\ CfgIdle /\ RepIdle /\ FnIdle
LlmScoreStep == LlmScoreNext /\ UNCHANGED <<scanVars, cfgVars, repVars, fnVars>>
SpecLlmScore == LlmScoreSpecInit /\ [][LlmScoreStep]_vars

\* One call of one helper function
FunctionsInit == FnInit /\ ScanIdle /\ CfgIdle /\ ScoreIdle /\ RepIdle
FunctionsStep == FnNext /\ UNCHANGED <<scanVars, cfgVars, scoreVars, repVars>>
SpecFunctions == FunctionsInit /\ [][FunctionsStep]_vars

\* Report generation over the records run_full_scan can return
ReportsInit == RepInit /\ ScanIdle /\ CfgIdle /\ ScoreIdle /\ FnIdle
ReportsStep == RepNext /\ UNCHANGED <<scanVars, cfgVars, scoreVars, fnVars>>
SpecReports == ReportsInit /\ [][ReportsStep]_vars

(***************************************************************************)
(* Properties of the scanner command                                       *)
(***************************************************************************)
\* Construction succeeded: main() got past DockerSecurityScanner(...).
Constructed ==
    \/ pc \in {"lint", "text", "json", "save", "exit"}
    \/ pc = "exited" /\ lint_proc.kind # "notrun"

LintSucceeded == lint_ret.raised = "none" /\ lint_ret.success
TextSucceeded == text_ret.raised = "none" /\ text_ret.success

\* C1 (as claimed): once construction has succeeded, the overall status of
\* run_full_scan is true, and the command exits 0, exactly when the lint and
\* the text-mode scan succeeded, whatever the structured-mode scan did; in
\* every other case the exit status is 1.
C1_ExitIsLintAndText ==
    /\ (returned => (scan_status <=> (LintSucceeded /\ TextSucceeded)))
    /\ (pc = "exited" /\ Constructed) =>
          (/\ exit_code \in {0, 1}
           /\ ((exit_code = 0) <=> (LintSucceeded /\ TextSucceeded)))

\* C2 (as claimed): whatever the external tool does, each of scan_dockerfile,
\* scan_image and scan_image_json returns a (success, data) pair and never
\* raises, so a run that got past construction returns a scan-result record.
C2_StagesNeverRaise ==
    /\ lint_ret.raised \in {"none", "notcalled"}
    /\ text_ret.raised \in {"none", "notcalled"}
    /\ json_ret.raised \in {"none", "notcalled"}
    /\ ((pc = "exited" /\ Constructed) => returned)

\* The structured-mode scanner ran and printed text that is not valid JSON.
JsonOutputInvalid == json_proc.kind = "exited" /\ ~json_proc.stdout.valid

TrivyInvoked ==
    \E i \in DOMAIN invocations : invocations[i][1] = "trivy"

TrivyScanInvoked ==
    \E i \in DOMAIN invocations :
        invocations[i][1] = "trivy" /\ invocations[i][2] = "image"

\* C5 (as claimed): a run whose build-file path does not exist exits non-zero
\* and never starts the vulnerability scanner.
C5_NoTrivyAtAll ==
    ~dockerfile_exists =>
        (/\ ~TrivyInvoked
         /\ (pc = "exited" => exit_code # 0))

\* C5 (amended): a run whose build-file path does not exist exits non-zero and
\* never starts an image scan; the only vulnerability-scanner process it may
\* start is the `trivy --version` probe of the tool check, which runs third,
\* before the build-file path is looked at.
C5_NoTrivyScan ==
    ~dockerfile_exists =>
        (/\ ~TrivyScanInvoked
         /\ (pc = "exited" => exit_code = 1)
         /\ \A i \in DOMAIN invocations :
               (invocations[i][1] = "trivy") =>
                   (i = 3 /\ invocations[i] = <<"trivy", "--version">>))

C5_Witness ==
    /\ ~dockerfile_exists
    /\ pc = "exited"
    /\ missing_tools = <<>>
    /\ invocations = <<<<"docker", "--version">>, <<"hadolint", "--version">>,
                       <<"trivy", "--version">>>>
    /\ error = MainError("ValueError", "__init__")

(***************************************************************************)
(* Properties of the settings                                              *)
(***************************************************************************)
\* The object the last call was made on, or built.
Target == cfg_heap[cfg_last.target]

UpdateRaised == cfg_last.op = "update" /\ cfg_last.raised # "none"

\* C6 (as claimed): an update() that raises, for an unknown name or for
\* values that fail validation, leaves every field of the object as it was
\* before the call.
C6_FailedUpdateChangesNothing ==
    UpdateRaised => (Target = cfg_before)

Accepted ==
    /\ cfg_last.op \in {"new", "from_env", "update"}
    /\ cfg_last.raised = "none"

\* C7 (as claimed): a construction or an update succeeds only if the four
\* timeouts, the LLM retry count, the retry attempt count and the two retry
\* waits are all greater than zero.
C7_AllBoundsPositive ==
    Accepted => (\A f \in NumericFields : Target[f] > 0)

\* C7 (amended): a construction or an update succeeds only if the linter,
\* vulnerability-scanner and LLM timeouts, the retry attempt count and the two
\* retry waits are greater than zero and the LLM retry count is not negative;
\* the secondary-scanner timeout is not validated.
C7_ValidatedBoundsPositive ==
    Accepted =>
        (/\ Target.timeout_hadolint > 0
         /\ Target.timeout_trivy > 0
         /\ Target.timeout_llm > 0
         /\ Target.max_retries_llm >= 0
         /\ Target.retry_attempts > 0
         /\ Target.retry_min_wait > 0
         /\ Target.retry_max_wait > 0)

C7_Witness ==
    /\ Accepted
    /\ cfg_last.op = "update"
    /\ Target.timeout_docker_scout <= 0
    /\ Target.max_retries_llm = 0

Credentials == {"sk-A", "sk-B", "sk-E"}

\* C8: to_dict() and the text __repr__ builds from it are the same for any
\* two settings objects that differ only in the value of a non-empty
\* credential, and show the credential only as the flag has_api_key, which is
\* true exactly when the credential is set and not empty.
C8_CredentialHidden ==
    cfg_last.op \in {"to_dict", "repr"} =>
        (/\ KeyTruthy(Target.openai_api_key) =>
               \A k \in Credentials :
                   LET other == [Target EXCEPT !.openai_api_key = k]
                   IN  cfg_last.out = IF cfg_last.op = "to_dict"
                                      THEN to_dict(other) ELSE repr(other)
         /\ (cfg_last.op = "to_dict") =>
               (/\ DOMAIN cfg_last.out = (FieldNames \ {"openai_api_key"})
                                         \cup {"has_api_key"}
                /\ cfg_last.out.has_api_key = KeyTruthy(Target.openai_api_key))
         /\ (cfg_last.op = "repr") =>
               (cfg_last.out[Len(cfg_last.out)] =
                   <<"has_api_key", KeyTruthy(Target.openai_api_key)>>))

C8_Witness ==
    /\ cfg_last.op = "to_dict"
    /\ Target.openai_api_key = "sk-A"
    /\ cfg_last.out.has_api_key

GetReturned == cfg_last.op = "get_config" /\ cfg_last.raised = "none"

\* C9: get_config returns the instance given to the most recent set_config
\* when no reset_config followed it; otherwise it returns the instance that
\* the first get_config since the most recent reset_config (or since process
\* start) built from the environment.  Two get_config calls with no set or
\* reset between them return the same instance, and an instance is built
\* from the environment only by a get_config that finds none cached.
C9_GetConfigLifecycle ==
    /\ GetReturned =>
        (/\ (hist_mode = "set") =>
               (cfg_last.ret = hist_set /\ ~cfg_last.built)
         /\ (hist_mode = "fresh") =>
               (/\ cfg_last.ret = hist_first
                /\ cfg_last.built = cfg_last.first
                /\ cfg_last.built => cfg_last.ret = Len(cfg_heap))
         /\ (cfg_last.prev # 0) => (cfg_last.ret = cfg_last.prev)
         /\ cfg_last.ret = cfg_global)
    /\ cfg_last.built => (cfg_last.op = "get_config" /\ cfg_last.cached = 0)

C9_Witness ==
    /\ GetReturned
    /\ hist_mode = "fresh"
    /\ ~cfg_last.first
    /\ cfg_last.prev = cfg_last.ret
    /\ cfg_last.ret = hist_first
    /\ cfg_last.ret = Len(cfg_heap)
    /\ cfg_last.ret > 1

(***************************************************************************)
(* Properties of the score breakdown                                       *)
(***************************************************************************)
\* Number of findings of the record whose severity is sev.
NumberOf(sev) ==
    Cardinality({i \in DOMAIN score_results.json_data.v :
                    score_results.json_data.v[i].Severity = sev})

NoFindings == score_results.json_data.isNone \/ score_results.json_data.v = <<>>

\* C10: the vulnerability sub-score is 100 when there are no structured
\* findings and otherwise max(0, 100 - (10*critical + 5*high + 2*medium +
\* 1*low)); 2 critical and 1 high findings give 75.
C10_VulnerabilityScore ==
    score_pc = "done" =>
        LET weighted == 10 * NumberOf("CRITICAL") + 5 * NumberOf("HIGH")
                        + 2 * NumberOf("MEDIUM") + NumberOf("LOW")
        IN  /\ NoFindings => (score_breakdown.vulnerabilities = 100)
            /\ (~NoFindings /\ weighted <= 100) =>
                   (score_breakdown.vulnerabilities = 100 - weighted)
            /\ (~NoFindings /\ weighted > 100) =>
                   (score_breakdown.vulnerabilities = 0)
            /\ (NumberOf("CRITICAL") = 2 /\ NumberOf("HIGH") = 1
                /\ Len(score_results.json_data.v) = 3) =>
                   (score_breakdown.vulnerabilities = 75)

C10_Witness ==
    /\ score_pc = "done"
    /\ NumberOf("CRITICAL") = 11
    /\ NumberOf("LOW") = 1
    /\ score_breakdown.vulnerabilities = 0

\* C11: the configuration sub-score is the constant 75 and the overall
\* score is 0.3 * build-file + 0.5 * vulnerabilities + 0.2 * configuration
\* (held in tenths); a successful lint with no findings gives 100, 100, 75
\* and 95.0.
C11_OverallIsWeightedSum ==
    score_pc = "done" =>
        /\ score_breakdown.configuration = 75
        /\ score_breakdown.overall10 =
               3 * score_breakdown.dockerfile
               + 5 * score_breakdown.vulnerabilities
               + 2 * score_breakdown.configuration
        /\ (score_results.dockerfile_scan.success /\ NoFindings) =>
               (score_breakdown =
                   [dockerfile |-> 100, vulnerabilities |-> 100,
                    configuration |-> 75, overall10 |-> 950])

C11_Witness ==
    /\ score_pc = "done"
    /\ score_results.dockerfile_scan.success
    /\ NoFindings
    /\ score_breakdown.overall10 = 950

\* Number of lines of a text: none for the empty text, otherwise one per
\* line terminator plus one for an unterminated last line.
NumberOfLines(text) ==
    IF text = <<>> THEN 0
    ELSE Cardinality({i \in DOMAIN text : text[i] = "\n"})
         + (IF text[Len(text)] = "\n" THEN 0 ELSE 1)

LintOutputLines ==
    IF score_results.dockerfile_scan.output.isNone THEN 0
    ELSE NumberOfLines(score_results.dockerfile_scan.output.v)

\* C12: the build-file sub-score is 100 if the lint step succeeded and
\* otherwise max(0, 100 - 5 * number of lines of the captured lint output),
\* also when that output is empty, absent or ends with a line terminator.
C12_BuildFileScore ==
    score_pc = "done" =>
        (score_breakdown.dockerfile =
            IF score_results.dockerfile_scan.success THEN 100
            ELSE IF 100 - 5 * LintOutputLines > 0
                 THEN 100 - 5 * LintOutputLines ELSE 0)

\* C13: each of the four values of the breakdown lies between 0 and 100.
C13_ScoresInRange ==
    score_pc = "done" =>
        /\ score_breakdown.dockerfile \in 0..100
        /\ score_breakdown.vulnerabilities \in 0..100
        /\ score_breakdown.configuration \in 0..100
        /\ score_breakdown.overall10 \in 0..1000

C13_Witness ==
    /\ score_pc = "done"
    /\ ~score_results.dockerfile_scan.success
    /\ LintOutputLines > 20
    /\ NumberOf("CRITICAL") > 10
    /\ score_breakdown.dockerfile = 0
    /\ score_breakdown.vulnerabilities = 0

C3_AllFormatsAttempted ==
    /\ rep_raised = "none"
    /\ (rep_pc \in {"done", "raised"}) =>
          /\ rep_pc = "done"
          /\ rep_attempted = report_order
          /\ DOMAIN report_paths = {"json", "csv", "pdf", "html"}

(***************************************************************************)
(* Properties of the helper functions                                      *)
(***************************************************************************)
Returned(fn) == fn_pc = "returned" /\ fn_in.fn = fn

Entity(c) ==
    IF c = "&" THEN "&amp;"
    ELSE IF c = "\"" THEN "&quot;"
    ELSE IF c = "'" THEN "&#x27;"
    ELSE IF c = ">" THEN "&gt;"
    ELSE IF c = "<" THEN "&lt;"
    ELSE c

ScriptEscaped ==
    <<"&lt;", "s", "c", "r", "i", "p", "t", "&gt;", "&amp;", "&quot;", "&#x27;">>

\* C16: HTML escaping replaces, character by character, & " ' > < by
\* &amp; &quot; &#x27; &gt; &lt; and leaves every other character unchanged
\* and in place; <script>&"' becomes &lt;script&gt;&amp;&quot;&#x27;.
C16_EscapeCharByChar ==
    Returned("_escape_html") =>
        /\ Len(fn_out.text) = Len(fn_in.text)
        /\ \A i \in 1..Len(fn_in.text) : fn_out.text[i] = Entity(fn_in.text[i])
        /\ (fn_in.text = ScriptText) => (fn_out.text = ScriptEscaped)

C16_Witness ==
    /\ Returned("_escape_html")
    /\ fn_in.text = ScriptText
    /\ fn_out.text = ScriptEscaped

CountedSeverities == {"CRITICAL", "HIGH", "MEDIUM", "LOW", "UNKNOWN"}

\* The counter a finding belongs to
CounterOf(vuln) ==
    IF vuln.Severity \in CountedSeverities THEN vuln.Severity ELSE "UNKNOWN"

\* C17: severity counting returns exactly the keys CRITICAL, HIGH, MEDIUM,
\* LOW, UNKNOWN, all 0 for an empty list; each finding is counted once, under
\* its own severity when that is one of the five and under UNKNOWN otherwise.
C17_SeverityCounting ==
    Returned("_count_by_severity") =>
        /\ DOMAIN fn_out.counts = CountedSeverities
        /\ \A k \in CountedSeverities :
              fn_out.counts[k] =
                  Cardinality({i \in DOMAIN fn_in.vulnerabilities :
                                  CounterOf(fn_in.vulnerabilities[i]) = k})

C17_Witness ==
    /\ Returned("_count_by_severity")
    /\ Len(fn_in.vulnerabilities) > 2
    /\ fn_in.vulnerabilities[1].Severity = NoneStr
    /\ fn_in.vulnerabilities[Len(fn_in.vulnerabilities)].Severity = "MEDIUM"
    /\ fn_out.counts.UNKNOWN = Len(fn_in.vulnerabilities) - 1
    /\ fn_out.counts.MEDIUM = 1

\* C19: the report filename is the results directory joined with the image
\* name in which every colon, slash, period and hyphen is an underscore and
\* every other character is kept, followed by _scan_results.<ext>;
\* myapp:latest with json gives myapp_latest_scan_results.json.
C19_ReportFilename ==
    Returned("_get_safe_filename") =>
        LET n == Len(fn_in.name)
            d == Len(results_dir)
        IN  /\ Len(fn_out.path) = d + n + 2
            /\ SubSeq(fn_out.path, 1, d) = results_dir
            /\ \A i \in 1..n :
                  fn_out.path[d + i] =
                      IF fn_in.name[i] \in {":", "/", ".", "-"} THEN "_"
                      ELSE fn_in.name[i]
            /\ fn_out.path[d + n + 1] = "_scan_results."
            /\ fn_out.path[d + n + 2] = fn_in.extension
            /\ (fn_in.name = MyappLatest /\ fn_in.extension = "json") =>
                  (fn_out.path =
                      results_dir
                      \o <<"m", "y", "a", "p", "p", "_", "l", "a", "t", "e",
                           "s", "t", "_scan_results.", "json">>)

C19_Witness ==
    /\ Returned("_get_safe_filename")
    /\ fn_in.name = <<"a", "/", "-">>
    /\ fn_in.extension = "pdf"
    /\ fn_out.path = results_dir \o <<"a", "_", "_", "_scan_results.", "pdf">>

StoredDescription == fn_out.filtered.list[1].Description

GivenDescription ==
    fn_in.scan_results.Results[1].Vulnerabilities[1].Description

\* C20: filtering stores a description longer than 150 characters as its
\* first 150 characters followed by the ellipsis marker, and a description of
\* 150 characters or fewer unmodified.
C20_DescriptionTruncated ==
    Returned("_filter_scan_results") =>
        /\ fn_out.filtered.raised = "none"
        /\ Len(fn_out.filtered.list) = 1
        /\ (Len(GivenDescription) > 150) =>
              (StoredDescription =
                  SubSeq(GivenDescription, 1, 150) \o <<".", ".", ".">>)
        /\ (Len(GivenDescription) <= 150) =>
              (StoredDescription = GivenDescription)

C20_Witness ==
    /\ Returned("_filter_scan_results")
    /\ Len(GivenDescription) = 200
    /\ Len(StoredDescription) = 153

(***************************************************************************)
(* Properties of the report files                                          *)
(***************************************************************************)
MarkupChars == {"&", "\"", "'", ">", "<"}

\* C15: every value that comes from the operator or from tool output reaches
\* the HTML page escaped, so none of the characters & " ' > < of such a value
\* appears raw in the page.
C15_HtmlTextEscaped ==
    (rep_files.html.kind = "html") =>
        (\A i \in DOMAIN rep_files.html.page :
            rep_files.html.page[i] \notin MarkupChars)

NoVulnerabilities ==
    rep_results.json_data.isNone \/ rep_results.json_data.v = <<>>

CsvHeader ==
    <<"VulnerabilityID", "Severity", "PkgName", "InstalledVersion", "Title",
      "Description", "CVSS", "Status", "Target", "PrimaryURL">>

CsvRowOf(v) ==
    <<v.VulnerabilityID, v.Severity, v.PkgName, v.InstalledVersion, v.Title,
      v.Description, v.CVSS, v.Status, v.Target, v.PrimaryURL>>

CsvStep ==
    (rep_pc = "csv" /\ rep_pc' # "csv") =>
        /\ NoVulnerabilities =>
              (rep_files' = rep_files /\ report_paths'.csv = <<>>)
        /\ (~NoVulnerabilities /\ report_paths'.csv # <<>>) =>
              /\ rep_files'.csv.kind = "csv"
              /\ rep_files'.csv.header = CsvHeader
              /\ Len(rep_files'.csv.rows) = Len(rep_results.json_data.v)
              /\ \A i \in DOMAIN rep_results.json_data.v :
                    rep_files'.csv.rows[i] = CsvRowOf(rep_results.json_data.v[i])

\* C18: CSV generation on a record with no vulnerabilities returns the empty
\* path and creates or truncates no file; with vulnerabilities the file it
\* writes holds the header and then one row per vulnerability, in input order.
C18_CsvFrame == [][CsvStep]_vars

C18_Witness ==
    /\ rep_pc \in {"pdf", "html", "done"}
    /\ rep_results.json_data.isNone = FALSE
    /\ rep_results.json_data.v = <<>>
    /\ rep_files.csv = OldFile
    /\ report_paths.csv = <<>>

(***************************************************************************)
(* Properties of settings validation                                       *)
(***************************************************************************)
\* A construction or an update with known names only: the call validates
\* the object that has the overrides applied.
Validating ==
    /\ cfg_last.op \in {"new", "update"}
    /\ \A i \in DOMAIN cfg_last.kw : cfg_last.kw[i][1] \in FieldNames

\* The object the overrides were applied to
Base == IF cfg_last.op = "update" THEN cfg_before ELSE Defaults

RECURSIVE Overridden(_, _)
Overridden(c, kw) ==
    IF kw = <<>> THEN c
    ELSE Overridden([c EXCEPT ![Head(kw)[1]] = Head(kw)[2]], Tail(kw))

\* The object the call validated
Validated == Overridden(Base, cfg_last.kw)

\* Every validated field but the two retry waits is valid.
ValidButWaits(c) ==
    /\ c.timeout_hadolint > 0 /\ c.timeout_trivy > 0 /\ c.timeout_llm > 0
    /\ c.llm_temperature >= 0 /\ c.llm_temperature <= 10
    /\ c.max_retries_llm >= 0 /\ c.retry_attempts > 0
    /\ c.max_file_size_mb > 0
    /\ \A i \in DOMAIN c.default_severity :
          c.default_severity[i] \in valid_severities

\* Every validated field but the temperature is valid.
ValidButTemperature(c) ==
    /\ c.timeout_hadolint > 0 /\ c.timeout_trivy > 0 /\ c.timeout_llm > 0
    /\ c.max_retries_llm >= 0 /\ c.retry_attempts > 0
    /\ c.retry_min_wait > 0 /\ c.retry_max_wait > 0
    /\ c.retry_min_wait <= c.retry_max_wait
    /\ c.max_file_size_mb > 0
    /\ \A i \in DOMAIN c.default_severity :
          c.default_severity[i] \in valid_severities

\* The call was rejected by validation (a construction can also fail before
\* validation, when the results directory cannot be created).
Rejected ==
    IF cfg_last.op = "update" THEN cfg_last.raised = "ValueError"
    ELSE cfg_last.raised \in {"ValueError", "OSError"}

NotRejected ==
    IF cfg_last.op = "update" THEN cfg_last.raised = "none"
    ELSE cfg_last.raised \in {"none", "OSError"}

\* C21: a construction or an update is rejected with a ValueError when the
\* retry min-wait is greater than the max-wait (10 and 2), and accepted when
\* both waits are positive and the min-wait is at most the max-wait (2 and
\* 10), the other fields being valid.
C21_WaitOrderValidated ==
    Validating =>
        /\ (Validated.retry_min_wait > Validated.retry_max_wait) => Rejected
        /\ (/\ ValidButWaits(Validated)
            /\ Validated.retry_min_wait > 0
            /\ Validated.retry_max_wait > 0
            /\ Validated.retry_min_wait <= Validated.retry_max_wait)
              => NotRejected

C21_Witness ==
    /\ Validating
    /\ cfg_last.op = "update"
    /\ Validated.retry_min_wait = 10
    /\ Validated.retry_max_wait = 2
    /\ cfg_last.raised = "ValueError"

\* C22: a construction or an update is rejected when the LLM temperature
\* (held in tenths) is outside [0, 1] (1.5, -0.1) and accepted when it is
\* inside, 0.0 and 1.0 included, the other fields being valid.
C22_TemperatureValidated ==
    Validating =>
        /\ (Validated.llm_temperature < 0 \/ Validated.llm_temperature > 10)
              => Rejected
        /\ (/\ ValidButTemperature(Validated)
            /\ Validated.llm_temperature >= 0
            /\ Validated.llm_temperature <= 10)
              => NotRejected

C22_Witness ==
    /\ Validating
    /\ cfg_last.op = "new"
    /\ Validated.llm_temperature = 10
    /\ cfg_last.raised = "none"

(***************************************************************************)
(* Properties of the scanner's construction and stages                     *)
(***************************************************************************)
\* The tool check has ended, by returning its list or by an exception.
ToolCheckOver == tool_results # <<>> /\ pc # "check_tools"

\* The required tools whose version check did not succeed, in order
RECURSIVE NotInvocable(_)
NotInvocable(i) ==
    IF i > Len(tool_results) THEN <<>>
    ELSE (IF tool_results[i] # "ok" THEN <<required_tools[i]>> ELSE <<>>)
         \o NotInvocable(i + 1)

\* C23: for every subset of docker, hadolint, trivy that is not invocable,
\* all three version checks are made and construction aborts with one
\* ValueError that names exactly the tools of the subset, in that order;
\* the tool check is passed only when the subset is empty.
C23_MissingToolsAggregated ==
    ToolCheckOver =>
        /\ Len(tool_results) = Len(required_tools)
        /\ \A i \in 1..Len(required_tools) :
              invocations[i] = <<required_tools[i], "--version">>
        /\ missing_tools = NotInvocable(1)
        /\ (NotInvocable(1) # <<>>) =>
              /\ pc \in {"verify", "exited"}
              /\ (pc = "exited") => (error = MainError("ValueError", "__init__"))

\* The tool ran to an exit status and its two streams were captured as text.
Exited(p) == p.kind = "exited"

\* C24: for the lint and for the text-mode image scan the success flag is
\* true exactly when the tool's exit status is zero, whatever was captured
\* on either stream; a successful lint returns (True, None) and a failed one
\* (False, standard output, or standard error when standard output is empty).
C24_SuccessIsExitStatus ==
    /\ Exited(lint_proc) =>
          /\ lint_ret.raised = "none"
          /\ lint_ret.success <=> (lint_proc.rc = 0)
          /\ (lint_proc.rc = 0) => (lint_ret = Ret(TRUE, OptNone))
          /\ (lint_proc.rc # 0) =>
                lint_ret = Ret(FALSE, Some(IF lint_proc.stdout # <<>>
                                           THEN lint_proc.stdout
                                           ELSE lint_proc.stderr))
    /\ Exited(text_proc) =>
          /\ text_ret.raised = "none"
          /\ text_ret.success <=> (text_proc.rc = 0)

\* A lint that failed with nothing on standard output, followed by a text
\* scan that exited 0 with text on both streams.
C24_Witness ==
    /\ Exited(lint_proc) /\ lint_proc.rc # 0
    /\ lint_proc.stdout = <<>> /\ lint_proc.stderr # <<>>
    /\ lint_ret.data = Some(lint_proc.stderr)
    /\ Exited(text_proc) /\ text_proc.rc = 0
    /\ text_proc.stdout # <<>> /\ text_proc.stderr # <<>>
    /\ text_ret.success

\* What the command runs once the scanner is constructed: the commands
\* after the three version checks and the image inspection.
StagesRun == SubSeq(invocations, Len(required_tools) + 2, Len(invocations))

\* C25 (as claimed): once construction has succeeded, the lint, the
\* text-mode scan, the structured-mode scan and the writing of the raw
\* results are each executed exactly once, in that order, before the process
\* exits, whichever stages fail and whatever the exit status is.
C25_StagesOnceInOrder ==
    (pc = "exited" /\ Constructed) =>
        StagesRun = << <<"hadolint">>,
                       <<"trivy", "image">>,
                       <<"trivy", "image", "-f", "json">>,
                       <<"write", "scan_results.json">> >>

(***************************************************************************)
(* Properties of the score and the placeholders in the reports             *)
(***************************************************************************)
\* The HTML page of the current generator that shows `text' as the score.
HtmlPageShowing(text) ==
    substitute(html_template,
               [html_template_vars(image_name, analysis_score, rep_results)
                   EXCEPT !.ANALYSIS_SCORE = text])

\* C26 (as claimed): once set_analysis_score(s) was called, for every
\* number s, 0 included, the JSON scan-info block, the PDF scan-information
\* section and the HTML page all show s; 'N/A' stands for a score only when
\* none was set.
C26_ScoreShownAlike ==
    (~analysis_score.isNone) =>
        LET s == analysis_score.v IN
        /\ (rep_files.json.kind = "json") =>
              (rep_files.json.scan_info.analysis_score = Some(s))
        /\ (rep_files.pdf.kind = "pdf") =>
              (rep_files.pdf.analysis_score = ToString(s))
        /\ (rep_files.html.kind = "html") =>
              (rep_files.html.page = HtmlPageShowing(Str(ToString(s))))

IsPlaceholder(e) ==
    \E i \in DOMAIN template_keys : e = placeholder(template_keys[i])

\* C27 (as claimed): only the placeholders of the static template are
\* replaced; a double-brace token inside an inserted value, such as an image
\* name holding {{SCAN_DATE}}, is in the page as that literal text.
C27_InsertedTokensLiteral ==
    (rep_files.html.kind = "html") =>
        (\A i \in DOMAIN image_name :
            IsPlaceholder(image_name[i]) =>
                (\E j \in DOMAIN rep_files.html.page :
                    rep_files.html.page[j] = image_name[i]))

(***************************************************************************)
(* Conservation of findings by the severity counters                       *)
(***************************************************************************)
SumOfCounters(counts) ==
    counts.CRITICAL + counts.HIGH + counts.MEDIUM + counts.LOW + counts.UNKNOWN

\* C28: the five counters _count_by_severity returns add up to the number
\* of findings, so the total of a JSON report's summary is the sum of its
\* per-severity counts.
C28_CountersConserveFindings ==
    /\ Returned("_count_by_severity") =>
          (SumOfCounters(fn_out.counts) = Len(fn_in.vulnerabilities))
    /\ Returned("generate_json_report") =>
          /\ fn_out.report.summary.total_vulnerabilities =
                SumOfCounters(fn_out.report.summary.by_severity)
          /\ fn_out.report.summary.total_vulnerabilities =
                Len(fn_out.report.vulnerabilities)

\* A JSON report of several findings, of a recognised severity and of an
\* absent one, whose total is made of two different counters.
C28_Witness ==
    /\ Returned("generate_json_report")
    /\ fn_out.report.summary.total_vulnerabilities > 2
    /\ fn_out.report.summary.by_severity.HIGH > 1
    /\ fn_out.report.summary.by_severity.UNKNOWN = 1
    /\ fn_in.results.json_data.v[Len(fn_in.results.json_data.v)].Severity
          = NoneStr
====
